---- MODULE Spec2Model ----
(***************************************************************************)
(* Model of the xref scraper (src/scraper.ts): the driver main(), the      *)
(* registry loader getSpecsData(), the source parser parseData() with      *)
(* mapDefinition() and normalizeTerm(), and the two aggregators            *)
(* updateDataByTerm() and updateDataBySpec().                              *)
(*                                                                         *)
(* A JavaScript string is modelled as a sequence of atoms.  A term is a    *)
(* sequence of one-character strings; a URL is a sequence of segments,     *)
(* the base URL of a specification being one segment.                      *)
(***************************************************************************)
EXTENDS Integers, Sequences, FiniteSets, TLC

VARIABLES
    pc,           \* position of main(): see the actions below
    forceUpdate,  \* options.forceUpdate
    hasUpdated,   \* result of updateInputSource()
    registryRead, \* getSpecsData() has read the registry file
    specMap,      \* getSpecsData(): shortname -> {url, title, shortname}
    dfnSources,   \* getSpecsData(): the DfnSource units, in registry order
    idx,          \* number of sources the loop of main() has processed
    terms,        \* the local `terms` of the last loop iteration
    dataByTerm,   \* term index
    dataBySpec,   \* spec index
    errorURIs,    \* the run's error list
    writes,       \* artifact -> "idle" | "pending" | "written" | "failed"
    result,       \* "running", or how main() ended: "true", "false", "exit1",
                  \* "threw in <callee>"
    nTerm,        \* normalizeTerm harness: the input term
    nType,        \* normalizeTerm harness: the input type
    nOut,         \* normalizeTerm harness: the outputs of the calls made so far
    prevByTerm,   \* term index before the last loop iteration
    registry,     \* getSpecsData(): `data`, the entries of the registry file
    loaded        \* getSpecsData(): number of entries its loop has handled

vars == <<pc, forceUpdate, hasUpdated, registryRead, specMap, dfnSources, idx,
          terms, dataByTerm, dataBySpec, errorURIs, writes, result,
          nTerm, nType, nOut, prevByTerm, registry, loaded>>

mainVars == <<pc, forceUpdate, hasUpdated, registryRead, specMap, dfnSources, idx,
              terms, dataByTerm, dataBySpec, errorURIs, writes, result, prevByTerm,
              registry, loaded>>

normVars == <<nTerm, nType, nOut>>

-----------------------------------------------------------------------------
(* Bounds *)

MaxTermLen == 3   \* longest term given to the normalizeTerm harness
MaxSources == 2   \* sources folded by the aggregation specification
MaxEntries == 2   \* registry entries read by one run of main()

-----------------------------------------------------------------------------
(* Strings *)

QUOTE == "\""
LPAREN == "("
RPAREN == ")"

\* The characters `.` of a regular expression does not match.
LineTerminators == {"\n", "\r"}

\* String.prototype.endsWith, for a one-character suffix
EndsWith(s, c) == Len(s) > 0 /\ s[Len(s)] = c

\* String.prototype.indexOf, 1-based; 0 when pat does not occur in s
IndexOf(s, pat) ==
    LET hits == {i \in 1..(Len(s) - Len(pat) + 1) : SubSeq(s, i, i + Len(pat) - 1) = pat}
    IN  IF hits = {} THEN 0 ELSE CHOOSE i \in hits : \A j \in hits : i <= j

\* String.prototype.replace with a string pattern: the first occurrence only
ReplaceFirst(s, pat, rep) ==
    LET i == IndexOf(s, pat)
    IN  IF i = 0 THEN s
        ELSE SubSeq(s, 1, i - 1) \o rep \o SubSeq(s, i + Len(pat), Len(s))

\* term.replace(/^"|"$/g, ''): a quote at the start and a quote at the end are
\* removed; the two alternatives never match the same character.
StripQuotes(s) ==
    LET lead  == Len(s) > 0 /\ s[1] = QUOTE
        trail == Len(s) > 1 /\ s[Len(s)] = QUOTE
    IN  SubSeq(s, IF lead THEN 2 ELSE 1, IF trail THEN Len(s) - 1 ELSE Len(s))

\* The match of /\(.+\)/ in s as <<first, last>>, or <<0, 0>>: the leftmost
\* "(" from which a match exists, extended greedily to the last ")" reachable
\* over characters that are not line terminators.
ArgsMatch(s) ==
    LET Ends(i) == {j \in (i + 2)..Len(s) :
                       /\ s[j] = RPAREN
                       /\ \A k \in (i + 1)..(j - 1) : s[k] \notin LineTerminators}
        starts  == {i \in 1..Len(s) : s[i] = LPAREN /\ Ends(i) # {}}
    IN  IF starts = {} THEN <<0, 0>>
        ELSE LET i == CHOOSE a \in starts : \A b \in starts : a <= b
                 j == CHOOSE a \in Ends(i) : \A b \in Ends(i) : b <= a
             IN  <<i, j>>

\* /\(.+\)/.test(term)
HasArgs(s) == ArgsMatch(s)[1] # 0

\* term.replace(/\(.+\)/, '()')
WithoutArgs(s) ==
    LET m == ArgsMatch(s)
    IN  IF m[1] = 0 THEN s
        ELSE SubSeq(s, 1, m[1] - 1) \o <<LPAREN, RPAREN>> \o SubSeq(s, m[2] + 1, Len(s))

-----------------------------------------------------------------------------
(* constants.ts and utils.ts *)

CSS_TYPES_INPUT ==
    {"property", "descriptor", "type", "value", "function", "at-rule", "selector"}

SUPPORTED_TYPES ==
    {"dfn", "interface", "method", "attribute", "dictionary", "enum", "enum-value",
     "element", "event", "exception", "extended-attribute", "typedef", "callback",
     "const"} \cup {"css-" \o t : t \in CSS_TYPES_INPUT}

\* uniq(items): the distinct items, each at the place of its first occurrence
RECURSIVE uniq(_)
uniq(items) ==
    IF items = <<>> THEN <<>>
    ELSE LET front == uniq(SubSeq(items, 1, Len(items) - 1))
             last  == items[Len(items)]
         IN  IF \E i \in 1..Len(front) : front[i] = last THEN front
             ELSE Append(front, last)

-----------------------------------------------------------------------------
(* normalizeTerm, mapDefinition, parseData *)

normalizeTerm(term, type) ==
    IF type = "enum-value" THEN StripQuotes(term)
    ELSE IF type = "method" /\ ~EndsWith(term, RPAREN) THEN term \o <<LPAREN, RPAREN>>
    ELSE term

\* `for: undefined` is a property JSON.stringify leaves out: the record has no
\* `for` field then.
mapDefinition(dfn, term, spec, series, specurl) ==
    LET normalizedType == IF dfn.type \in CSS_TYPES_INPUT THEN "css-" \o dfn.type
                          ELSE dfn.type
        mapped == [term       |-> normalizeTerm(term, normalizedType),
                   isExported |-> dfn.access = "public",
                   type       |-> normalizedType,
                   spec       |-> spec,
                   shortname  |-> series,
                   status     |-> "current",
                   uri        |-> ReplaceFirst(dfn.href, specurl, <<>>),
                   normative  |-> ~dfn.informative]
    IN  IF Len(dfn.for) > 0 THEN mapped @@ [for |-> dfn.for] ELSE mapped

\* The nested loop of parseData: one record per (definition, alias), in order
RECURSIVE termData(_, _)
termData(source, n) ==
    IF n = 0 THEN <<>>
    ELSE LET dfn == source.dfns[n]
         IN  termData(source, n - 1) \o
             [k \in 1..Len(dfn.linkingText) |->
                 mapDefinition(dfn, dfn.linkingText[k], source.spec, source.series,
                               source.url)]

IsSupported(term) == term.isExported /\ term.type \in SUPPORTED_TYPES

\* parseData without the call of uniq
parseDataNoUniq(source) ==
    SelectSeq(termData(source, Len(source.dfns)), IsSupported)

\* parseData without the filter
parseDataNoFilter(source) ==
    uniq(termData(source, Len(source.dfns)))

\* lines 136-151
parseData(source) ==
    uniq(SelectSeq(termData(source, Len(source.dfns)), IsSupported))

-----------------------------------------------------------------------------
(* updateDataByTerm, updateDataBySpec *)

\* The rest of an object destructuring: the record without the named fields
Omit(r, fields) == [f \in DOMAIN r \ fields |-> r[f]]

\* if (!data[key]) data[key] = []; data[key].push(entry)
Push(data, key, entry) ==
    IF key \in DOMAIN data THEN [data EXCEPT ![key] = Append(@, entry)]
    ELSE data @@ (key :> <<entry>>)

\* Push with unshift in the place of push
Unshift(data, key, entry) ==
    IF key \in DOMAIN data THEN [data EXCEPT ![key] = <<entry>> \o @]
    ELSE data @@ (key :> <<entry>>)

\* the loop body of updateDataByTerm with unshift in the place of push
updateDataByTermStepFront(t, data) ==
    LET termRest == Omit(t, {"term", "isExported"})
        d1       == Unshift(data, t.term, termRest)
    IN  IF termRest.type = "method" /\ HasArgs(t.term)
        THEN Unshift(d1, WithoutArgs(t.term), termRest)
        ELSE d1

\* the loop body of updateDataByTerm without the entry for the bare name
updateDataByTermStepNoFanOut(t, data) ==
    Push(data, t.term, Omit(t, {"term", "isExported"}))

\* lines 169-178: the body of the loop of updateDataByTerm
updateDataByTermStep(t, data) ==
    LET termRest == Omit(t, {"term", "isExported"})
        d1       == Push(data, t.term, termRest)
    IN  IF termRest.type = "method" /\ HasArgs(t.term)
        THEN Push(d1, WithoutArgs(t.term), termRest)
        ELSE d1

RECURSIVE updateDataByTerm(_, _)
updateDataByTerm(ts, data) ==
    IF ts = <<>> THEN data
    ELSE updateDataByTerm(Tail(ts), updateDataByTermStep(Head(ts), data))

\* the loop body of updateDataBySpec with `spec` in the place of `shortname`
updateDataBySpecStepBySpec(t, data) ==
    Push(data, t.spec, Omit(t, {"spec", "isExported"}))

\* lines 183-186: the body of the loop of updateDataBySpec
updateDataBySpecStep(t, data) ==
    Push(data, t.shortname, Omit(t, {"shortname", "isExported"}))

RECURSIVE updateDataBySpec(_, _)
updateDataBySpec(ts, data) ==
    IF ts = <<>> THEN data
    ELSE updateDataBySpec(Tail(ts), updateDataBySpecStep(Head(ts), data))

-----------------------------------------------------------------------------
(* Inputs *)

CssCascadeURL == <<"https://drafts.csswg.org/css-cascade-3/">>
DomURL == <<"https://dom.spec.whatwg.org/">>

\* Terms, as sequences of characters
T_f    == <<"f">>
T_f0   == <<"f", LPAREN, RPAREN>>
T_fa   == <<"f", LPAREN, "a", RPAREN>>
T_fb   == <<"f", LPAREN, "b", RPAREN>>
T_a    == <<"a">>
T_qa   == <<QUOTE, "a", QUOTE>>

Dfn(type, access, href, linkingText, informative, for) ==
    [type |-> type, access |-> access, href |-> href, linkingText |-> linkingText,
     informative |-> informative, for |-> for]

\* a method spelled with and without its arguments
MethodDfn   == Dfn("method", "public", CssCascadeURL \o <<"#dom-f">>,
                   <<T_fa, T_f0>>, FALSE, <<"I">>)
\* the same method name defined elsewhere, two overloads and the bare name
OverloadDfn == Dfn("method", "public", CssCascadeURL \o <<"#dom-g">>,
                   <<T_fa, T_fb, T_f>>, TRUE, <<>>)
PrivateDfn  == Dfn("method", "private", CssCascadeURL \o <<"#dom-h">>,
                   <<T_fb>>, FALSE, <<>>)
UnknownDfn  == Dfn("grammar", "public", CssCascadeURL \o <<"#prod-a">>,
                   <<T_a>>, FALSE, <<>>)
PropertyDfn == Dfn("property", "public", DomURL \o <<"#propdef-a">>,
                   <<T_a, T_a>>, FALSE, <<>>)
EnumDfn     == Dfn("enum-value", "public", DomURL \o <<"#dom-e-a">>,
                   <<T_qa, T_a>>, FALSE, <<"E">>)

\* a concept whose linking text has the shape of a method with arguments
ConceptDfn  == Dfn("dfn", "public", DomURL \o <<"#concept-f">>,
                   <<T_fa>>, FALSE, <<>>)

Definitions ==
    {MethodDfn, OverloadDfn, PrivateDfn, UnknownDfn, PropertyDfn, EnumDfn, ConceptDfn}

\* The contents of a definitions file: no definition, one definition, or one of
\* three pairs (two definitions sharing a key, one definition twice, a private
\* definition before a public one)
DfnLists ==
    {<<>>} \cup {<<d>> : d \in Definitions}
           \cup {<<MethodDfn, OverloadDfn>>, <<MethodDfn, MethodDfn>>,
                 <<PrivateDfn, MethodDfn>>}

\* The contents of the definitions files in the runs of main()
RegistryDfnLists ==
    {<<>>, <<MethodDfn>>, <<PropertyDfn>>, <<MethodDfn, OverloadDfn>>}

\* Registry entries without their definitions
SpecEntries ==
    {[shortname |-> "css-cascade-3", series |-> "css-cascade",
      nightly |-> CssCascadeURL, title |-> "CSS Cascading and Inheritance Level 3"],
     [shortname |-> "dom", series |-> "dom",
      nightly |-> DomURL, title |-> "DOM Standard"]}

\* A registry entry together with the contents of the definitions file it names:
\* hasDfns is the truth of entry.dfns, dfnsIsArray tells whether the file's
\* `dfns` member can be iterated.
Entry(e, hasDfns, dfnsIsArray, dfns) ==
    [shortname |-> e.shortname, series |-> e.series, nightly |-> e.nightly,
     title |-> e.title, hasDfns |-> hasDfns, dfnsIsArray |-> dfnsIsArray, dfns |-> dfns]

Entries ==
    {Entry(e, TRUE, TRUE, l) : e \in SpecEntries, l \in RegistryDfnLists}
    \cup {Entry(e, TRUE, FALSE, <<>>) : e \in SpecEntries}
    \cup {Entry(e, FALSE, TRUE, <<>>) : e \in SpecEntries}

\* lines 230-235: the DfnSource of an entry
SourceOf(entry) ==
    [series |-> entry.series, spec |-> entry.shortname, url |-> entry.nightly,
     dfns |-> entry.dfns, dfnsIsArray |-> entry.dfnsIsArray]

\* The sources folded by the aggregation specification
Sources == {SourceOf(Entry(e, TRUE, TRUE, l)) : e \in SpecEntries, l \in DfnLists}

SeqsUpTo(S, n) == UNION {[1..k -> S] : k \in 0..n}

Artifacts == {"xref.json", "specs.json", "specmap.json"}

\* Inputs of the normalizeTerm harness
Chars == {QUOTE, LPAREN, RPAREN, "a"}
NormTypes == {"enum-value", "method", "dfn"}

EmptyMap == <<>>

-----------------------------------------------------------------------------
(* main() *)

IdleMain ==
    /\ pc = "updateInputSource"
    /\ hasUpdated = FALSE
    /\ registryRead = FALSE
    /\ specMap = EmptyMap
    /\ registry = <<>>
    /\ loaded = 0
    /\ dfnSources = <<>>
    /\ idx = 0
    /\ terms = <<>>
    /\ dataByTerm = EmptyMap
    /\ prevByTerm = EmptyMap
    /\ dataBySpec = EmptyMap
    /\ errorURIs = <<>>
    /\ writes = [a \in Artifacts |-> "idle"]
    /\ result = "running"

IdleNorm ==
    /\ nTerm = <<>>
    /\ nType = "dfn"
    /\ nOut = <<>>

Init ==
    /\ IdleMain
    /\ forceUpdate \in BOOLEAN
    /\ IdleNorm

\* the update gate without the test of options.forceUpdate
UpdateInputSourceIgnoringForce ==
    /\ pc = "updateInputSource"
    /\ \E changed \in BOOLEAN :
          /\ hasUpdated' = changed
          /\ IF ~changed
             THEN pc' = "done" /\ result' = "false"
             ELSE pc' = "getSpecsData" /\ result' = result
    /\ UNCHANGED <<forceUpdate, registryRead, specMap, registry, loaded, dfnSources, idx,
                   terms, dataByTerm, prevByTerm, dataBySpec, errorURIs, writes>>
    /\ UNCHANGED normVars

\* lines 62-66, 101-124: git exits with code 0
UpdateInputSource ==
    /\ pc = "updateInputSource"
    /\ \E changed \in BOOLEAN :
          /\ hasUpdated' = changed
          /\ IF ~changed /\ ~forceUpdate
             THEN pc' = "done" /\ result' = "false"
             ELSE pc' = "getSpecsData" /\ result' = result
    /\ UNCHANGED <<forceUpdate, registryRead, specMap, registry, loaded, dfnSources, idx,
                   terms, dataByTerm, prevByTerm, dataBySpec, errorURIs, writes>>
    /\ UNCHANGED normVars

\* lines 115-119: git fails, the promise of main() rejects
UpdateInputSourceFails ==
    /\ pc = "updateInputSource"
    /\ pc' = "done"
    /\ result' = "threw in updateInputSource"
    /\ UNCHANGED <<forceUpdate, hasUpdated, registryRead, specMap, registry, loaded,
                   dfnSources, idx, terms, dataByTerm, prevByTerm, dataBySpec,
                   errorURIs, writes>>
    /\ UNCHANGED normVars

\* lines 218-223: the registry file is read and parsed
ReadRegistry ==
    /\ pc = "getSpecsData"
    /\ \E d \in SeqsUpTo(Entries, MaxEntries) : registry' = d
    /\ registryRead' = TRUE
    /\ pc' = "entries"
    /\ UNCHANGED <<forceUpdate, hasUpdated, specMap, loaded, dfnSources, idx, terms,
                   dataByTerm, prevByTerm, dataBySpec, errorURIs, writes, result>>
    /\ UNCHANGED normVars

\* line 218 or 229: a file cannot be read or is not JSON
ReadFails ==
    /\ \/ pc = "getSpecsData"
       \/ pc = "entries" /\ loaded < Len(registry) /\ registry[loaded + 1].hasDfns
    /\ pc' = "done"
    /\ result' = "threw in getSpecsData"
    /\ UNCHANGED <<forceUpdate, hasUpdated, registryRead, specMap, registry, loaded,
                   dfnSources, idx, terms, dataByTerm, prevByTerm, dataBySpec,
                   errorURIs, writes>>
    /\ UNCHANGED normVars

\* lines 225-243: one iteration of the loop of getSpecsData.  Every entry of
\* the model has a nightly URL, which is then the url of its specMap value;
\* specUrls is returned as `urls`, which main() does not use.
LoadEntry ==
    /\ pc = "entries"
    /\ loaded < Len(registry)
    /\ LET entry == registry[loaded + 1]
           meta  == [url |-> entry.nightly, title |-> entry.title,
                     shortname |-> entry.shortname]
       IN  /\ dfnSources' = IF entry.hasDfns THEN Append(dfnSources, SourceOf(entry))
                            ELSE dfnSources
           /\ specMap' = (entry.shortname :> meta) @@ specMap
    /\ loaded' = loaded + 1
    /\ UNCHANGED <<pc, forceUpdate, hasUpdated, registryRead, registry, idx, terms,
                   dataByTerm, prevByTerm, dataBySpec, errorURIs, writes, result>>
    /\ UNCHANGED normVars

\* lines 245-246, 68-73: getSpecsData returns
LoadDone ==
    /\ pc = "entries"
    /\ loaded = Len(registry)
    /\ pc' = "process"
    /\ UNCHANGED <<forceUpdate, hasUpdated, registryRead, specMap, registry, loaded,
                   dfnSources, idx, terms, dataByTerm, prevByTerm, dataBySpec,
                   errorURIs, writes, result>>
    /\ UNCHANGED normVars

\* lines 76-78: the body of the loop of main; parseData is handed errorURIs and
\* never appends to it
LoopBody(source) ==
    LET ts == parseData(source)
    IN  /\ terms' = ts
        /\ prevByTerm' = dataByTerm
        /\ dataByTerm' = updateDataByTerm(ts, dataByTerm)
        /\ dataBySpec' = updateDataBySpec(ts, dataBySpec)
        /\ errorURIs' = errorURIs

\* lines 74-78: one iteration of the loop of main
ProcessSource ==
    /\ pc = "process"
    /\ idx < Len(dfnSources)
    /\ dfnSources[idx + 1].dfnsIsArray
    /\ LoopBody(dfnSources[idx + 1])
    /\ idx' = idx + 1
    /\ UNCHANGED <<pc, forceUpdate, hasUpdated, registryRead, specMap, registry, loaded,
                   dfnSources, writes, result>>
    /\ UNCHANGED normVars

\* lines 79-82: parseData throws on a source whose dfns cannot be iterated
ProcessSourceThrows ==
    /\ pc = "process"
    /\ idx < Len(dfnSources)
    /\ ~dfnSources[idx + 1].dfnsIsArray
    /\ pc' = "done"
    /\ result' = "threw in parseData"
    /\ UNCHANGED <<forceUpdate, hasUpdated, registryRead, specMap, registry, loaded,
                   dfnSources, idx, terms, dataByTerm, prevByTerm, dataBySpec,
                   errorURIs, writes>>
    /\ UNCHANGED normVars

\* lines 85-97: the error list is checked, then the three writes are started
StartWrites ==
    /\ pc = "process"
    /\ idx = Len(dfnSources)
    /\ IF Len(errorURIs) > 0
       THEN pc' = "done" /\ result' = "exit1" /\ writes' = writes
       ELSE pc' = "writing" /\ result' = result
            /\ writes' = [a \in Artifacts |-> "pending"]
    /\ UNCHANGED <<forceUpdate, hasUpdated, registryRead, specMap, registry, loaded,
                   dfnSources, idx, terms, dataByTerm, prevByTerm, dataBySpec,
                   errorURIs>>
    /\ UNCHANGED normVars

\* lines 93-97: one writeFile settles; Promise.all rejects on the first failure
\* and the other writes go on
WriteSettles ==
    /\ \E a \in Artifacts, ok \in BOOLEAN :
          /\ writes[a] = "pending"
          /\ writes' = [writes EXCEPT ![a] = IF ok THEN "written" ELSE "failed"]
          /\ IF ~ok /\ result = "running"
             THEN pc' = "done" /\ result' = "threw in writeFile"
             ELSE pc' = pc /\ result' = result
    /\ UNCHANGED <<forceUpdate, hasUpdated, registryRead, specMap, registry, loaded,
                   dfnSources, idx, terms, dataByTerm, prevByTerm, dataBySpec,
                   errorURIs>>
    /\ UNCHANGED normVars

\* lines 93-98: the three writes have succeeded
ReturnTrue ==
    /\ pc = "writing"
    /\ \A a \in Artifacts : writes[a] = "written"
    /\ pc' = "done"
    /\ result' = "true"
    /\ UNCHANGED <<forceUpdate, hasUpdated, registryRead, specMap, registry, loaded,
                   dfnSources, idx, terms, dataByTerm, prevByTerm, dataBySpec,
                   errorURIs, writes>>
    /\ UNCHANGED normVars

Next ==
    \/ UpdateInputSource
    \/ UpdateInputSourceFails
    \/ ReadRegistry
    \/ ReadFails
    \/ LoadEntry
    \/ LoadDone
    \/ ProcessSource
    \/ ProcessSourceThrows
    \/ StartWrites
    \/ WriteSettles
    \/ ReturnTrue

Spec == Init /\ [][Next]_vars

-----------------------------------------------------------------------------
(* The loop of main() over an arbitrary sequence of sources *)

InitFold ==
    /\ IdleMain
    /\ forceUpdate = TRUE
    /\ IdleNorm

\* lines 74-78 on the next source of the sequence
FoldSource ==
    /\ Len(dfnSources) < MaxSources
    /\ \E source \in Sources :
          /\ dfnSources' = Append(dfnSources, source)
          /\ LoopBody(source)
    /\ idx' = idx + 1
    /\ UNCHANGED <<pc, forceUpdate, hasUpdated, registryRead, specMap, registry, loaded,
                   writes, result>>
    /\ UNCHANGED normVars

SpecFold == InitFold /\ [][FoldSource]_vars

-----------------------------------------------------------------------------
(* normalizeTerm applied twice to a term *)

InitNorm ==
    /\ IdleMain
    /\ forceUpdate = FALSE
    /\ nTerm \in SeqsUpTo(Chars, MaxTermLen)
    /\ nType \in NormTypes
    /\ nOut = <<>>

Normalize ==
    /\ Len(nOut) < 2
    /\ nOut' = Append(nOut, normalizeTerm(IF nOut = <<>> THEN nTerm ELSE nOut[Len(nOut)],
                                          nType))
    /\ UNCHANGED <<nTerm, nType>>
    /\ UNCHANGED mainVars

SpecNorm == InitNorm /\ [][Normalize]_vars

-----------------------------------------------------------------------------
(* Vocabulary of the properties *)

Range(f) == {f[i] : i \in DOMAIN f}

IsPrefix(p, s) == Len(p) <= Len(s) /\ SubSeq(s, 1, Len(p)) = p

NoDuplicates(list) == \A i, j \in 1..Len(list) : list[i] = list[j] => i = j

Written == {a \in Artifacts : writes[a] = "written"}

\* The kind of a definition after the CSS remapping
RemappedKind(dfn) == IF dfn.type \in CSS_TYPES_INPUT THEN "css-" \o dfn.type ELSE dfn.type

IsLinkable(dfn) == dfn.access = "public" /\ RemappedKind(dfn) \in SUPPORTED_TYPES

\* A source has a definition whose href does not start with the base URL
UriFixFailure(source) ==
    \E n \in 1..Len(source.dfns) : ~IsPrefix(source.url, source.dfns[n].href)

\* A parenthesized, non-empty argument list: from the first "(" to the last ")"
FirstOpen(t) == CHOOSE i \in 1..Len(t) : t[i] = LPAREN /\ \A j \in 1..(i - 1) : t[j] # LPAREN
LastClose(t) == CHOOSE i \in 1..Len(t) : t[i] = RPAREN /\ \A j \in (i + 1)..Len(t) : t[j] # RPAREN

HasArgumentList(t) ==
    /\ LPAREN \in Range(t)
    /\ RPAREN \in Range(t)
    /\ LastClose(t) > FirstOpen(t) + 1

Collapsed(t) ==
    SubSeq(t, 1, FirstOpen(t)) \o SubSeq(t, LastClose(t), Len(t))

\* A record is stored in the term index under k
StoredUnder(r, k) ==
    \/ r.term = k
    \/ r.type = "method" /\ HasArgumentList(r.term) /\ Collapsed(r.term) = k

TermEntry(r) == [f \in DOMAIN r \ {"term", "isExported"} |-> r[f]]

\* The records of the sources processed so far, as parseData returned them
RECURSIVE ParsedUpTo(_)
ParsedUpTo(n) == IF n = 0 THEN <<>> ELSE ParsedUpTo(n - 1) \o parseData(dfnSources[n])

\* f(list[i]) for the elements of list that satisfy Keep, in order
Pick(list, Keep(_), F(_)) ==
    LET kept == SelectSeq(list, Keep)
    IN  [i \in 1..Len(kept) |-> F(kept[i])]

-----------------------------------------------------------------------------
(* Properties of main() *)

\* C1: once a source with a URI-fix failure has been processed, the failure is
\* in the error list, no artifact is written and main() does not return true.
C1_UriFailureAborts ==
    \A i \in 1..idx :
        UriFixFailure(dfnSources[i]) =>
            /\ Len(errorURIs) > 0
            /\ Written = {}
            /\ result # "true"

\* C2: when a run has ended and no write is in flight, either all three
\* artifacts are written or none is.
C2_AllOrNothing ==
    (pc = "done" /\ \A a \in Artifacts : writes[a] # "pending")
        => Written \in {{}, Artifacts}

\* C8: after an update check that reports no change, without forceUpdate, main()
\* has returned false and has read no registry, parsed no source and written no
\* artifact; true is returned only with the three artifacts written, and false
\* only in that no-op case.
C8_ReturnValue ==
    /\ (/\ pc # "updateInputSource"
        /\ result # "threw in updateInputSource"
        /\ ~hasUpdated
        /\ ~forceUpdate)
          => /\ result = "false"
             /\ ~registryRead
             /\ idx = 0
             /\ dfnSources = <<>>
             /\ \A a \in Artifacts : writes[a] = "idle"
    /\ result = "true" => Written = Artifacts
    /\ result = "false" => ~hasUpdated /\ ~forceUpdate

C8_Witness == result = "false" /\ pc = "done"

\* C10: the list under every key of the term index is the concatenation, over
\* the sources in registry order, of the entries of the records parseData
\* returned for the source, in the order parseData returned them.
C10_ProcessingOrder ==
    /\ dfnSources = Pick(SubSeq(registry, 1, loaded), LAMBDA e : e.hasDfns, SourceOf)
    /\ \A k \in DOMAIN dataByTerm :
          dataByTerm[k] = Pick(ParsedUpTo(idx), LAMBDA r : StoredUnder(r, k), TermEntry)

\* Two sources have been processed, the first with two different entries
\* under a key and the second with an entry under the same key.
C10_Witness ==
    /\ idx = 2
    /\ \E k \in DOMAIN dataByTerm :
          LET first  == Pick(parseData(dfnSources[1]), LAMBDA r : StoredUnder(r, k), TermEntry)
              second == Pick(parseData(dfnSources[2]), LAMBDA r : StoredUnder(r, k), TermEntry)
          IN  /\ Cardinality(Range(first)) >= 2
              /\ second # <<>>
              /\ Range(first) \cap Range(second) = {}

-----------------------------------------------------------------------------
(* Properties of parseData and of the two aggregators *)

SpecEntry(r) == [f \in DOMAIN r \ {"shortname", "isExported"} |-> r[f]]

\* The records mapDefinition makes of the linkable definitions of the sources
\* processed so far
RecordsOf(source, dfn) ==
    {mapDefinition(dfn, dfn.linkingText[a], source.spec, source.series, source.url) :
        a \in 1..Len(dfn.linkingText)}

LinkableRecords ==
    UNION {UNION {RecordsOf(dfnSources[i], d) :
                     d \in {x \in Range(dfnSources[i].dfns) : IsLinkable(x)}} :
           i \in 1..idx}

\* C3: every entry of the term index and of the spec index is the entry of a
\* record of a definition with access "public" and a supported remapped kind,
\* stored under a key of that record.
C3_OnlyLinkable ==
    /\ \A k \in DOMAIN dataByTerm : \A e \in Range(dataByTerm[k]) :
          /\ e.type \in SUPPORTED_TYPES
          /\ \E r \in LinkableRecords : e = TermEntry(r) /\ StoredUnder(r, k)
    /\ \A k \in DOMAIN dataBySpec : \A e \in Range(dataBySpec[k]) :
          /\ e.type \in SUPPORTED_TYPES
          /\ \E r \in LinkableRecords : e = SpecEntry(r) /\ r.shortname = k

\* A source with a private, an unsupported and a linkable definition among
\* its definitions has been processed, and the indexes are not empty.
C3_Witness ==
    /\ \E i \in 1..idx : \E n, m \in 1..Len(dfnSources[i].dfns) :
          /\ ~IsLinkable(dfnSources[i].dfns[n])
          /\ IsLinkable(dfnSources[i].dfns[m])
    /\ \E i \in 1..idx : \E n \in 1..Len(dfnSources[i].dfns) :
          dfnSources[i].dfns[n].access = "public" /\ ~IsLinkable(dfnSources[i].dfns[n])
    /\ DOMAIN dataByTerm # {}
    /\ DOMAIN dataBySpec # {}

\* C4: no list of the term index and no list of the spec index holds two
\* equal entries.
C4_NoDuplicateEntries ==
    /\ \A k \in DOMAIN dataByTerm : NoDuplicates(dataByTerm[k])
    /\ \A k \in DOMAIN dataBySpec : NoDuplicates(dataBySpec[k])

\* The entries the last iteration appended under key k of the term index
Appended(k) ==
    SubSeq(dataByTerm[k],
           (IF k \in DOMAIN prevByTerm THEN Len(prevByTerm[k]) ELSE 0) + 1,
           Len(dataByTerm[k]))

\* C5: one iteration appends, for every record, its entry under its term and,
\* when the record is a method whose term has a non-empty argument list, an
\* equal entry under the term with the list collapsed; nothing else is added.
C5_MethodFanOut ==
    /\ \A k \in DOMAIN prevByTerm :
          k \in DOMAIN dataByTerm /\ IsPrefix(prevByTerm[k], dataByTerm[k])
    /\ \A k \in DOMAIN dataByTerm :
          /\ Len(Appended(k)) = Cardinality({i \in 1..Len(terms) : StoredUnder(terms[i], k)})
          /\ \A e \in Range(Appended(k)) :
                \E i \in 1..Len(terms) : e = TermEntry(terms[i]) /\ StoredUnder(terms[i], k)
    /\ \A i \in 1..Len(terms) :
          LET t == terms[i].term
              fanOut == terms[i].type = "method" /\ HasArgumentList(t)
          IN  /\ t \in DOMAIN dataByTerm
              /\ TermEntry(terms[i]) \in Range(Appended(t))
              /\ fanOut => /\ Collapsed(t) \in DOMAIN dataByTerm
                           /\ Collapsed(t) # t
                           /\ TermEntry(terms[i]) \in Range(Appended(Collapsed(t)))
              /\ Cardinality({k \in DOMAIN dataByTerm : StoredUnder(terms[i], k)})
                    = IF fanOut THEN 2 ELSE 1

\* The last iteration handled a method with arguments and a method without,
\* the one before a record with arguments that is no method.
C5_Witness ==
    /\ \E i \in 1..Len(terms) : terms[i].type = "method" /\ HasArgumentList(terms[i].term)
    /\ \E i \in 1..Len(terms) : terms[i].type = "method" /\ ~HasArgumentList(terms[i].term)
    /\ idx = 2
    /\ \E r \in Range(parseData(dfnSources[1])) :
          r.type # "method" /\ HasArgumentList(r.term)

\* The records of the last source before the filter, and the filtered ones
LastMapped == termData(dfnSources[idx], Len(dfnSources[idx].dfns))
LastFiltered == SelectSeq(LastMapped, LAMBDA r : r.isExported /\ r.type \in SUPPORTED_TYPES)

FirstIndex(list, x) == CHOOSE i \in 1..Len(list) : list[i] = x /\ \A j \in 1..(i - 1) : list[j] # x

\* C7: parseData returns every exported record of a supported kind exactly
\* once, and nothing else, in the order of the first occurrences.
C7_ParseDedup ==
    idx > 0 =>
        /\ Range(terms) = Range(LastFiltered)
        /\ NoDuplicates(terms)
        /\ \A i, j \in 1..Len(terms) :
              i < j => FirstIndex(LastFiltered, terms[i]) < FirstIndex(LastFiltered, terms[j])

\* The last source had the same record twice among at least three filtered
\* records of which two differ.
C7_Witness ==
    /\ idx > 0
    /\ Len(terms) >= 2
    /\ Len(LastFiltered) > Len(terms)

-----------------------------------------------------------------------------
(* Property of normalizeTerm *)

\* C6: normalizing a normalized term changes nothing.
C6_Idempotent ==
    Len(nOut) = 2 => nOut[2] = nOut[1]

====
